---------------------------- MODULE Spec2Model ----------------------------
(***************************************************************************)
(* nix-eval-jobs: the collector threads (src/src/nix-eval-jobs.cc,         *)
(* collector), their worker processes (worker), the bootstrap process      *)
(* (collectTopLevelJob / initState), the supervisor (main) and the frame   *)
(* parsers of src/src/msg.cc.                                              *)
(*                                                                         *)
(* The evaluator library is outside the repository.  It is represented by  *)
(* a forest: for every path, what getDerivations does at the value found   *)
(* there (a list of derivations, a TypeError or another EvalError) and     *)
(* which kind of value it is.                                              *)
(*                                                                         *)
(* Undefined behaviour of the C++ code is a choice between the outcomes a  *)
(* build produces:                                                         *)
(*   - Drv::Drv(const json &) indexes a const json object with a key that  *)
(*     may be missing (job.cc:104): the library asserts (the process       *)
(*     aborts) or, with assertions compiled out, the read of the value     *)
(*     fails its type check and a json exception is thrown;                *)
(*   - AccessorPath(const json &), AccessorPath(std::string &),            *)
(*     JobChildren(const json &) and JobAttrs/JobList::children() use a    *)
(*     shared_ptr member that was never allocated (part_002:72,83,         *)
(*     job.cc:120,133,148): the process dies, or the call behaves as if    *)
(*     the vector had been allocated;                                      *)
(*   - the collector dereferences the iterator `begin` after erasing it    *)
(*     from todo (nix-eval-jobs.cc:234-237): the process dies, or the      *)
(*     stale node still holds the path.                                    *)
(*                                                                         *)
(* Spec is a run of the program.  FairSpec is Spec with every thread and   *)
(* process scheduled fairly.  SpecApply applies the accessor conversions   *)
(* (src/unnamed/part_002), the frame parsers, getJob and Drvs::eval        *)
(* (job.cc) and the worker's RSS test on their own, to arguments drawn     *)
(* from bounded sets.                                                      *)
(***************************************************************************)
EXTENDS Integers, Sequences, FiniteSets, TLC

(***************************************************************************)
(* Bounds of the model                                                     *)
(***************************************************************************)
\* number of collector threads (--workers)
NrWorkers == 2
\* how many times a worker's RSS sample may exceed the limit in one run
MaxRestarts == 1
\* how many events of the environment (a frame no worker loop of this
\* code writes, a worker that cannot initialise, a spurious wakeup of the
\* condition variable) one run may contain
MaxEnv == 1

\* MyArgs::maxMemorySize, the default of --max-memory-size
maxMemorySize == 4096

Coord == 1..NrWorkers

(***************************************************************************)
(* Accessors and paths (src/src/accessor.hh)                               *)
(***************************************************************************)
Name(s) == [kind |-> "Name", idx |-> 0, name |-> s]
Index(i) == [kind |-> "Index", idx |-> i, name |-> ""]

\* std::string comparison of the attribute names the forests use
NameOrd(s) == CASE s = "a" -> 1 [] s = "b" -> 2 [] s = "c" -> 3 [] OTHER -> 0

\* nlohmann::json operator< on two accessor values: numbers order before
\* strings, numbers by value, strings as std::string
AccLess(x, y) ==
    IF x.kind = "Index"
    THEN IF y.kind = "Index" THEN x.idx < y.idx ELSE TRUE
    ELSE IF y.kind = "Index" THEN FALSE ELSE NameOrd(x.name) < NameOrd(y.name)

\* operator< on two json arrays: std::vector's lexicographic comparison
RECURSIVE PathLess(_, _)
PathLess(p, q) ==
    IF q = <<>> THEN FALSE
    ELSE IF p = <<>> THEN TRUE
    ELSE IF AccLess(Head(p), Head(q)) THEN TRUE
    ELSE IF AccLess(Head(q), Head(p)) THEN FALSE
    ELSE PathLess(Tail(p), Tail(q))

\* *state->todo.begin(): the least element of the std::set<json>
Begin(S) == CHOOSE p \in S : \A q \in S \ {p} : PathLess(p, q)

(***************************************************************************)
(* JSON values and texts (nlohmann::json), as far as accessors need them   *)
(***************************************************************************)
\* the largest number an Index of an applied path holds, and the longest
\* applied path
MaxIdx == 12
MaxPathLen == 2

\* the most derivations one applied Drvs job holds
MaxDrvs == 2

\* a JSON value: its value_t, the number and the string it holds.  A
\* number is kept as its 64 bits read in two's complement, a float as its
\* integral part and the digits of its fraction.
J(t, n, s) == [jt |-> t, n |-> n, s |-> s]
JNull == J("null", 0, "")
JBool(b) == J("boolean", IF b THEN 1 ELSE 0, "")
JUnsigned(n) == J("number_unsigned", n, "")
JInteger(n) == J("number_integer", n, "")
JFloat(n, f) == J("number_float", n, f)
JString(s) == J("string", 0, s)
JArray == J("array", 0, "")
JObject == J("object", 0, "")

\* one element of a JSON array text: a quoted string or a bare literal
Token(q, cs) == [quoted |-> q, chars |-> cs]

\* the integers a bare literal of the texts below can denote
Numbers == -2..MaxIdx

\* json::dump of a string or a number: a string is written in quotes, a
\* number bare; an unsigned number with the top bit set is 2^64 + n
dump(j) ==
    CASE j.jt = "string" -> Token(TRUE, j.s)
      [] j.jt = "number_unsigned" /\ j.n < 0 -> Token(FALSE, "2^64" \o ToString(j.n))
      [] j.jt \in {"number_unsigned", "number_integer"} -> Token(FALSE, ToString(j.n))
      [] j.jt = "number_float" -> Token(FALSE, ToString(j.n) \o "." \o j.s)
      [] j.jt = "boolean" -> Token(FALSE, IF j.n = 1 THEN "true" ELSE "false")
      [] j.jt = "null" -> Token(FALSE, "null")
      [] j.jt = "array" -> Token(FALSE, "[]")
      [] OTHER -> Token(FALSE, "{}")

\* json::parse of one element: what is in quotes is a string whatever its
\* characters are; bare digits are number_unsigned, with a sign
\* number_integer, with a fraction number_float
parse(t) ==
    IF t.quoted THEN JString(t.chars)
    ELSE IF \E n \in Numbers : ToString(n) = t.chars
    THEN LET n == CHOOSE m \in Numbers : ToString(m) = t.chars
         IN  IF n >= 0 THEN JUnsigned(n) ELSE JInteger(n)
    ELSE IF \E n \in Numbers : ToString(n) \o ".5" = t.chars
    THEN JFloat(CHOOSE m \in Numbers : ToString(m) \o ".5" = t.chars, "5")
    ELSE CASE t.chars = "true" -> JBool(TRUE)
           [] t.chars = "false" -> JBool(FALSE)
           [] t.chars = "null" -> JNull
           [] t.chars = "[]" -> JArray
           [] OTHER -> JObject

(***************************************************************************)
(* Accessors and accessor paths (src/unnamed/part_002)                     *)
(***************************************************************************)
\* what a call yields: a value, or the exception or signal that ends it
Ok(v) == [ok |-> TRUE, err |-> "", val |-> v]
Fail(e) == [ok |-> FALSE, err |-> e, val |-> <<>>]

\* Index::Index(const json &): `val = json` with val an unsigned long, the
\* number_unsigned_t of nlohmann::json.  get_arithmetic_value casts
\* number_unsigned, number_integer and number_float to unsigned long and
\* throws for every other type; the cast of an integer keeps its 64 bits,
\* the cast of a float drops the fraction.
IndexCtor(j) ==
    IF j.jt \in {"number_unsigned", "number_integer", "number_float"}
    THEN Ok(Index(j.n))
    ELSE Fail("TypeError")

\* Name::Name(const json &): `val = json` with val a std::string throws
\* for what is no string; the EvalError for the empty string is caught by
\* catch (...) and becomes a TypeError
NameCtor(j) ==
    IF j.jt = "string" /\ j.s # ""
    THEN Ok(Name(j.s))
    ELSE Fail("TypeError")

\* accessorFromJson: Index first, Name on TypeError
accessorFromJson(j) ==
    IF IndexCtor(j).ok THEN IndexCtor(j) ELSE NameCtor(j)

\* Name::toJson, Index::toJson
toJson(a) == IF a.kind = "Name" THEN JString(a.name) ELSE JUnsigned(a.idx)

\* to_json(json &, const AccessorPath &): the array of the accessors' JSON
pathJson(p) == [i \in 1..Len(p) |-> toJson(p[i])]

\* AccessorPath::toJson and dump: the text of that array
stringify(p) == [i \in 1..Len(p) |-> dump(pathJson(p)[i])]

\* AccessorPath::AccessorPath(const json &) for an array js: each element
\* goes through accessorFromJson and is pushed onto `path`, a shared_ptr
\* this constructor never sets.  The first push dereferences the null
\* pointer: the process dies, or the call goes on as if the vector had
\* been allocated.  A TypeError of the first element comes before any push.
AccessorPathOfJson(js) ==
    LET as == [i \in 1..Len(js) |-> accessorFromJson(js[i])]
    IN  IF Len(js) = 0 THEN {Ok(<<>>)}
        ELSE IF ~as[1].ok THEN {Fail("TypeError")}
        ELSE {Fail("crash"),
              IF \A i \in 1..Len(js) : as[i].ok
              THEN Ok([i \in 1..Len(js) |-> as[i].val])
              ELSE Fail("TypeError")}

\* AccessorPath::AccessorPath(std::string &): json::parse, then as above
AccessorPathOfString(text) ==
    AccessorPathOfJson([i \in 1..Len(text) |-> parse(text[i])])

(***************************************************************************)
(* The evaluator's view of the expression                                  *)
(***************************************************************************)
Drv(n, sys) == [name |-> n, system |-> sys]
NoDrv == Drv("", "")

\* kind: what Value::type() is; gd: how getDerivations ends at this value
\* ("ok" with the derivations in drvs, "TypeError", "EvalError");
\* children: attribute names in lexicographic order or list indices
Node(k, g, d, ch) == [kind |-> k, gd |-> g, drvs |-> d, children |-> ch]

\* an empty attribute set: getDerivations finds nothing
ForestEmpty == (<<>> :> Node("attrs", "ok", <<>>, <<>>))

\* the top-level value is a derivation
ForestSingle == (<<>> :> Node("attrs", "ok", <<Drv("d0", "x86_64-linux")>>, <<>>))

\* a set for which getDerivations raises TypeError (a member that claims
\* to be a derivation and has a name that is no string), with the members
\* a (a derivation) and b (a set without derivations among its members,
\* whose member c holds one)
ForestAttrs ==
    (<<>> :> Node("attrs", "TypeError", <<>>, <<Name("a"), Name("b")>>))
    @@ (<<Name("a")>> :> Node("attrs", "ok", <<Drv("dA", "x86_64-linux")>>, <<>>))
    @@ (<<Name("b")>> :> Node("attrs", "ok", <<>>, <<Name("c")>>))
    @@ (<<Name("b"), Name("c")>> :> Node("attrs", "ok", <<Drv("dC", "x86_64-linux")>>, <<>>))

\* a list for which getDerivations raises TypeError, whose element 0
\* throws when it is forced and whose element 1 is a derivation
ForestList ==
    (<<>> :> Node("list", "TypeError", <<>>, <<Index(0), Index(1)>>))
    @@ (<<Index(0)>> :> Node("other", "EvalError", <<>>, <<>>))
    @@ (<<Index(1)>> :> Node("attrs", "ok", <<Drv("d1", "x86_64-linux")>>, <<>>))

\* as ForestAttrs, with two members that are derivations
ForestPair ==
    (<<>> :> Node("attrs", "TypeError", <<>>, <<Name("a"), Name("b")>>))
    @@ (<<Name("a")>> :> Node("attrs", "ok", <<Drv("dA", "x86_64-linux")>>, <<>>))
    @@ (<<Name("b")>> :> Node("attrs", "ok", <<Drv("dB", "x86_64-linux")>>, <<>>))

\* as ForestPair, but getDerivations finds two derivations at a, the
\* second of which has no system attribute (querySystem: "unknown")
ForestUnknown ==
    (<<>> :> Node("attrs", "TypeError", <<>>, <<Name("a"), Name("b")>>))
    @@ (<<Name("a")>> :> Node("attrs", "ok",
                              <<Drv("dA", "x86_64-linux"), Drv("dU", "unknown")>>, <<>>))
    @@ (<<Name("b")>> :> Node("attrs", "ok", <<Drv("dB", "x86_64-linux")>>, <<>>))

\* the top-level value throws when it is forced
ForestThrow == (<<>> :> Node("other", "EvalError", <<>>, <<>>))

Forests ==
    {ForestEmpty, ForestSingle, ForestAttrs, ForestList, ForestPair, ForestUnknown,
     ForestThrow}

(***************************************************************************)
(* Frames on the pipes (src/src/msg.cc, the send methods)                  *)
(***************************************************************************)
Frame(t, p, ch, d, e) == [t |-> t, path |-> p, children |-> ch, drv |-> d, detail |-> e]
Lit(t) == Frame(t, <<>>, <<>>, NoDrv, "")

\* CollectExit::send, CollectDo::send
ExitFrame == Lit("exit")
DoFrame(p) == Frame("do", p, <<>>, NoDrv, "")
\* WorkNext::send, WorkRestart::send, WorkDone::send
NextFrame == Lit("next")
RestartFrame == Lit("restart")
DoneFrame == Lit("done")
\* WorkDrv::send and the worker's reply for a Drv: the Drv's keys and "path"
DrvFrame(p, d) == Frame("drv", p, <<>>, d, "")
\* WorkChildren::send: {"path": .., "children": ..}
ChildrenFrame(p, ch) == Frame("children", p, ch, NoDrv, "")
\* {"error": msg}
ErrorFrame(e) == Frame("error", <<>>, <<>>, NoDrv, e)
\* a line that is no JSON text, and a JSON object with none of the keys
\* the parsers look for
GarbageFrame == Lit("garbage")
JunkFrame == Lit("junk")

\* json::parse(s) succeeds
IsJson(f) == f.t \in {"drv", "children", "error", "junk"}

\* the keys of the JSON object
Keys(f) ==
    CASE f.t = "drv" -> {"name", "system", "drvPath", "outputs", "path"}
      [] f.t = "children" -> {"path", "children"}
      [] f.t = "error" -> {"error"}
      [] f.t = "junk" -> {"foo"}
      [] OTHER -> {}

DrvKeys == {"name", "system", "drvPath", "outputs"}

(***************************************************************************)
(* The parsers of src/src/msg.cc.  Each yields the set of results the      *)
(* build can produce: a variant, "TypeError" or "abort".                   *)
(***************************************************************************)
\* WorkDrv::WorkDrv(const std::string &): Drv(json::parse(s)); the member
\* `path` is not set from the frame
WorkDrvCtor(f) ==
    IF ~IsJson(f) THEN {"TypeError"}
    ELSE IF DrvKeys \subseteq Keys(f) THEN {"drv"}
    ELSE {"abort", "TypeError"}

\* WorkChildren::WorkChildren: j["path"] and j["children"] must be arrays
\* of accessors; a key that is missing reads as null and is refused
WorkChildrenCtor(f) ==
    IF IsJson(f) /\ {"path", "children"} \subseteq Keys(f)
    THEN {"crash", "children"}
    ELSE {"TypeError"}

\* WorkDone::WorkDone
WorkDoneCtor(f) == IF f.t = "done" THEN {"done"} ELSE {"TypeError"}

\* WorkError::WorkError: any JSON text is accepted; detail is set only
\* when the key "error" is there
WorkErrorCtor(f) == IF IsJson(f) THEN {"error"} ELSE {"TypeError"}

\* WorkRestart::WorkRestart, WorkNext::WorkNext
WorkRestartCtor(f) == IF f.t = "restart" THEN {"restart"} ELSE {"TypeError"}
WorkNextCtor(f) == IF f.t = "next" THEN {"next"} ELSE {"TypeError"}

\* try A, on TypeError try B
OrElse(A, B) == (A \ {"TypeError"}) \cup (IF "TypeError" \in A THEN B ELSE {})

parseWorkMsg(f) == OrElse(WorkRestartCtor(f), OrElse(WorkNextCtor(f), WorkErrorCtor(f)))

parseWorkJob(f) ==
    OrElse(WorkDrvCtor(f),
           OrElse(WorkChildrenCtor(f), OrElse(WorkDoneCtor(f), WorkErrorCtor(f))))

\* the detail of a parsed WorkError
ErrorDetail(f) == IF "error" \in Keys(f) THEN f.detail ELSE ""

(***************************************************************************)
(* What the processes of this program write                                *)
(***************************************************************************)
\* e.msg() of an error raised while a path is evaluated, and of a worker
\* that cannot initialise
EvalMsg == "eval"
InitMsg == "init"

UnknownSystem_never(n) == FALSE

\* Drv::Drv(EvalState &, DrvInfo &) throws for one of the derivations
UnknownSystem(n) == \E i \in 1..Len(n.drvs) : n.drvs[i].system = "unknown"

RECURSIVE DrvReplies(_, _)
\* the loop of worker over job->eval(state): the reply, then "done", for
\* each result
DrvReplies(p, ds) ==
    IF ds = <<>> THEN <<>>
    ELSE <<DrvFrame(p, Head(ds)), DoneFrame>> \o DrvReplies(p, Tail(ds))

RECURSIVE DrvSends(_)
\* the loop of collectTopLevelJob: WorkDrv(drv, AccessorPath()).send
DrvSends(ds) ==
    IF ds = <<>> THEN <<>> ELSE <<DrvFrame(<<>>, Head(ds))>> \o DrvSends(Tail(ds))

catchEvalError_fatal == [frames |-> <<ErrorFrame(EvalMsg)>>, dies |-> TRUE]

\* the handler `catch (EvalError & e)` of the worker: one error frame is
\* written and the loop goes on to the RSS check
catchEvalError == [frames |-> <<ErrorFrame(EvalMsg)>>, dies |-> FALSE]

\* getJob: Drvs is tried first, and its constructor succeeds whenever
\* getDerivations returns, with derivations or without; JobAttrs and
\* JobList are tried after a TypeError only.  Any other exception leaves
\* getJob (TypeError is an EvalError).
getJob(n) ==
    IF n.gd = "ok"
    THEN IF UnknownSystem(n) THEN Fail("EvalError") ELSE Ok("Drvs")
    ELSE IF n.gd = "EvalError" THEN Fail("EvalError")
    ELSE IF n.kind = "attrs" THEN Ok("JobAttrs")
    ELSE IF n.kind = "list" THEN Ok("JobList")
    ELSE Fail("TypeError")

\* What the worker writes for "do p" before it samples its RSS, and
\* whether the process ends there.  ub: the outcome of parsing the path
\* into the unallocated vector.
workerReply(F, p, ub) ==
    IF ub = "crash" THEN [frames |-> <<>>, dies |-> TRUE]
    ELSE IF p \notin DOMAIN F
    THEN \* findAlongAttrPath throws an Error that is no EvalError: the
         \* handler of Proc writes the error and "restart"
         [frames |-> <<ErrorFrame(EvalMsg), RestartFrame>>, dies |-> TRUE]
    ELSE LET job == getJob(F[p]) IN
         IF ~job.ok THEN catchEvalError
         ELSE IF job.val \in {"JobAttrs", "JobList"}
         THEN \* children() uses the unallocated vector, and reply.update()
              \* refuses the array
              [frames |-> <<>>, dies |-> TRUE]
         ELSE [frames |-> DrvReplies(p, F[p].drvs), dies |-> FALSE]

\* What the bootstrap process writes before it ends.  ub: the outcome of
\* children() on the unallocated vector.
collectTopLevelJob(F, ub) ==
    LET n == F[<<>>] IN
    CASE n.gd = "EvalError" -> <<ErrorFrame(EvalMsg), RestartFrame>>
      [] n.gd = "TypeError" ->
           IF n.kind \in {"attrs", "list"}
           THEN IF ub = "crash" THEN <<>>
                ELSE <<ChildrenFrame(<<>>, n.children), DoneFrame>>
           ELSE <<ErrorFrame(EvalMsg), RestartFrame>>
      [] OTHER ->
           IF UnknownSystem(n)
           THEN \* WorkError(e.msg()) parses the message as JSON and throws
                <<ErrorFrame(EvalMsg), RestartFrame>>
           ELSE DrvSends(n.drvs) \o <<DoneFrame>>

\* to_json(json &, const Drv &): the line printed for a derivation
Line(d) == [keys |-> DrvKeys, drv |-> d]

\* the RSS samples getrusage may return in ru_maxrss, which Linux counts
\* in kibibytes: around the value of the flag and around 1024 times it
RssSamples ==
    {maxMemorySize - 1, maxMemorySize, maxMemorySize + 1,
     maxMemorySize * 1024, maxMemorySize * 1024 + 1}
\* (size_t) r.ru_maxrss > myArgs.maxMemorySize * 1024
OverLimit(rss) == rss > maxMemorySize * 1024

(***************************************************************************)
(* State                                                                   *)
(***************************************************************************)
VARIABLES
    forest,     \* the expression being evaluated
    mainpc,     \* main: "start", "initState", "threads", "join", "exited"
    exitCode,   \* the status main returns (-1 while it runs)
    boot,       \* frames of the bootstrap process not yet read
    todo,       \* State::todo
    active,     \* State::active
    exc,        \* State::exc
    stdout,     \* the lines written to std::cout
    pc,         \* per collector: the label it is at
    current,    \* per collector: the optional `current`
    proc,       \* per collector: its worker ("none", "live", "dead")
    toW,        \* per collector: frames written to the worker, unread
    fromW,      \* per collector: frames written by the worker, unread
    woken,      \* collectors notified since they began to wait
    crashed,    \* the threads in which the process was killed (0: main)
    restarts,   \* RSS samples over the limit so far
    env,        \* events of the environment so far
    io,         \* the kinds of I/O done so far: by which thread, and
                \* whether it held the lock of Sync<State> meanwhile
    call,       \* a function of the program applied on its own: its name
                \* and its argument (NoCall in a run of the program)
    ret         \* what that application returned (NoRet before it returns)

prog == <<forest, mainpc, exitCode, boot, todo, active, exc, stdout, pc,
          current, proc, toW, fromW, woken, crashed, restarts, env, io>>

vars == <<prog, call, ret>>

NoCall == [fn |-> "none"]
NoRet == [ok |-> FALSE, err |-> "pending", val |-> <<>>]

\* one kind of I/O: thread t (0: main) did op while it held the lock or not
IO(t, op, locked) == [by |-> t, op |-> op, locked |-> locked]

\* readLine(proc->from.get()) in wait_for_worker, await_responses and
\* initState: no lock is held there
recvIO(t) == IO(t, "recv", FALSE)

\* CollectExit().send(proc->to) and CollectDo(..).send(proc->to) stand in
\* the block of wait_for_job in which `state` holds the lock
sendIO(t) == IO(t, "send", TRUE)

stdoutIO_unlocked(t) == IO(t, "stdout", FALSE)

\* HandleJob.drv takes the lock before it writes to std::cout
stdoutIO(t) == IO(t, "stdout", TRUE)

\* initState writes to std::cout without the lock
initStdoutIO == IO(0, "stdout", FALSE)

NoExc == [set |-> FALSE, by |-> 0, what |-> "", detail |-> ""]
Exc(c, w, d) == [set |-> TRUE, by |-> c, what |-> w, detail |-> d]

\* the program right after construction, evaluating the expression F
InitProg(F) ==
    /\ forest = F
    /\ mainpc = "start"
    /\ exitCode = -1
    /\ boot = <<>>
    /\ todo = {}
    /\ active = {}
    /\ exc = NoExc
    /\ stdout = <<>>
    /\ pc = [c \in Coord |-> "unstarted"]
    /\ current = [c \in Coord |-> <<>>]
    /\ proc = [c \in Coord |-> "none"]
    /\ toW = [c \in Coord |-> <<>>]
    /\ fromW = [c \in Coord |-> <<>>]
    /\ woken = {}
    /\ crashed = {}
    /\ restarts = 0
    /\ env = 0
    /\ io = {}

Init ==
    /\ \E F \in Forests : InitProg(F)
    /\ call = NoCall
    /\ ret = NoRet

Waiting == {d \in Coord : pc[d] = "waiting"}

(***************************************************************************)
(* main and initState                                                      *)
(***************************************************************************)
\* initState: auto proc = Proc(collectTopLevelJob)
SpawnBootstrap ==
    /\ crashed = {}
    /\ mainpc = "start"
    /\ \E ub \in {"crash", "works"} : boot' = collectTopLevelJob(forest, ub)
    /\ mainpc' = "initState"
    /\ UNCHANGED <<forest, exitCode, todo, active, exc, stdout, pc, current,
                   proc, toW, fromW, woken, crashed, restarts, env>>
    /\ UNCHANGED <<io, call, ret>>

\* an exception leaves main through handleExceptions
MainFails ==
    /\ mainpc' = "exited"
    /\ exitCode' = 1
    /\ UNCHANGED <<todo, stdout, crashed>>

\* initState: one turn of the loop that reads the bootstrap's frames
InitStateRead ==
    /\ crashed = {}
    /\ mainpc = "initState"
    /\ IF boot = <<>>
       THEN \* readLine meets the end of the pipe
            /\ MainFails
            /\ boot' = boot
            /\ io' = io \cup {recvIO(0)}
       ELSE /\ boot' = Tail(boot)
            /\ \E r \in parseWorkJob(Head(boot)) :
                 CASE r \in {"abort", "crash"} ->
                        /\ crashed' = {0}
                        /\ io' = io \cup {recvIO(0)}
                        /\ UNCHANGED <<mainpc, exitCode, todo, stdout>>
                   [] r = "drv" ->
                        /\ stdout' = Append(stdout, Line(Head(boot).drv))
                        /\ io' = io \cup {recvIO(0), initStdoutIO}
                        /\ UNCHANGED <<mainpc, exitCode, todo, crashed>>
                   [] r = "children" ->
                        /\ io' = io \cup {recvIO(0)}
                        /\ todo' = todo \cup
                              {<<Head(boot).children[i]>> : i \in 1..Len(Head(boot).children)}
                        /\ UNCHANGED <<mainpc, exitCode, stdout, crashed>>
                   [] r = "done" ->
                        /\ io' = io \cup {recvIO(0)}
                        /\ mainpc' = "threads"
                        /\ UNCHANGED <<exitCode, todo, stdout, crashed>>
                   [] OTHER -> MainFails /\ io' = io \cup {recvIO(0)}
    /\ UNCHANGED <<forest, active, exc, pc, current, proc, toW, fromW, woken,
                   restarts, env>>
    /\ UNCHANGED <<call, ret>>

\* main: one collector thread per worker
StartThreads ==
    /\ crashed = {}
    /\ mainpc = "threads"
    /\ mainpc' = "join"
    /\ pc' = [c \in Coord |-> "wait_for_worker"]
    /\ UNCHANGED <<forest, exitCode, boot, todo, active, exc, stdout, current,
                   proc, toW, fromW, woken, crashed, restarts, env>>
    /\ UNCHANGED <<io, call, ret>>

mainStatus_zero(e) == 0

\* main: after the joins, rethrow state->exc if it is set
mainStatus(e) == IF e.set THEN 1 ELSE 0

JoinThreads ==
    /\ crashed = {}
    /\ mainpc = "join"
    /\ \A c \in Coord : pc[c] = "returned"
    /\ mainpc' = "exited"
    /\ exitCode' = mainStatus(exc)
    /\ UNCHANGED <<forest, boot, todo, active, exc, stdout, pc, current, proc,
                   toW, fromW, woken, crashed, restarts, env>>
    /\ UNCHANGED <<io, call, ret>>

(***************************************************************************)
(* collector                                                               *)
(***************************************************************************)
Catch_lost(c, w, d) ==
    /\ exc' = exc
    /\ woken' = (woken \cup Waiting) \ {c}
    /\ pc' = [pc EXCEPT ![c] = "returned"]
    /\ proc' = [proc EXCEPT ![c] = "none"]
    /\ toW' = [toW EXCEPT ![c] = <<>>]
    /\ fromW' = [fromW EXCEPT ![c] = <<>>]

\* the handler `catch (...)` of collector: the exception is stored, every
\* waiting thread is notified, the thread returns and its Proc is destroyed
Catch(c, w, d) ==
    /\ exc' = Exc(c, w, d)
    /\ woken' = (woken \cup Waiting) \ {c}
    /\ pc' = [pc EXCEPT ![c] = "returned"]
    /\ proc' = [proc EXCEPT ![c] = "none"]
    /\ toW' = [toW EXCEPT ![c] = <<>>]
    /\ fromW' = [fromW EXCEPT ![c] = <<>>]

\* wait_for_worker, no worker attached: std::make_unique<Proc>(worker).
\* The new process evaluates the top level and writes "next"; a process
\* that cannot initialise writes the error and "restart" and ends.
SpawnWorker(c) ==
    /\ crashed = {}
    /\ pc[c] = "wait_for_worker"
    /\ proc[c] = "none"
    /\ \/ /\ proc' = [proc EXCEPT ![c] = "live"]
          /\ fromW' = [fromW EXCEPT ![c] = <<NextFrame>>]
          /\ env' = env
       \/ /\ env < MaxEnv
          /\ env' = env + 1
          /\ proc' = [proc EXCEPT ![c] = "dead"]
          /\ fromW' = [fromW EXCEPT ![c] = <<ErrorFrame(InitMsg), RestartFrame>>]
    /\ toW' = [toW EXCEPT ![c] = <<>>]
    /\ UNCHANGED <<forest, mainpc, exitCode, boot, todo, active, exc, stdout,
                   pc, current, woken, crashed, restarts>>
    /\ UNCHANGED <<io, call, ret>>

detach_keep(pr, c) == pr

\* HandleWork.restart: proc_ = std::nullopt, and the jump back to
\* wait_for_worker destroys the local `proc`
detach(pr, c) == [pr EXCEPT ![c] = "none"]

\* wait_for_worker: read one frame and handle it as a WorkMsg
WaitForWorker(c) ==
    /\ crashed = {}
    /\ pc[c] = "wait_for_worker"
    /\ proc[c] # "none"
    /\ IF fromW[c] = <<>>
       THEN /\ proc[c] = "dead"
            /\ Catch(c, "worker process died unexpectedly", "")
       ELSE \E r \in parseWorkMsg(Head(fromW[c])) :
              CASE r = "restart" ->
                     /\ proc' = detach(proc, c)
                     /\ toW' = [toW EXCEPT ![c] = <<>>]
                     /\ fromW' = [fromW EXCEPT ![c] = <<>>]
                     /\ UNCHANGED <<exc, woken, pc>>
                [] r = "next" ->
                     /\ pc' = [pc EXCEPT ![c] = "wait_for_job"]
                     /\ fromW' = [fromW EXCEPT ![c] = Tail(fromW[c])]
                     /\ UNCHANGED <<exc, woken, proc, toW>>
                [] r = "error" ->
                     Catch(c, "worker error", ErrorDetail(Head(fromW[c])))
                [] OTHER -> Catch(c, "could not parse WorkMsg", "")
    /\ UNCHANGED <<forest, mainpc, exitCode, boot, todo, active, stdout,
                   current, crashed, restarts, env>>
    /\ io' = io \cup {recvIO(c)}
    /\ UNCHANGED <<call, ret>>

\* the first `if` of wait_for_job
exitCondition(td, ac, e) == (td = {} /\ ac = {}) \/ e.set

\* the value of waitForJobJump at the switch: the second if/else assigns
\* it on both branches, after the first `if` has
waitForJobJump(td, ac, e) ==
    LET first == IF exitCondition(td, ac, e) THEN "finished" ELSE "errUnsetJ"
        second == IF td # {} THEN "awaitResponsesJ" ELSE "waitForJobJ"
    IN second

\* the frames wait_for_job writes to the worker when it leases p
jobFrames(td, ac, e, p) ==
    (IF exitCondition(td, ac, e) THEN <<ExitFrame>> ELSE <<>>) \o <<DoFrame(p)>>

leaseTodo_keep(td, p) == td

\* the lease: state->todo.erase(begin); state->active.insert(*current)
leaseTodo(td, p) == td \ {p}

leaseActive_skip(ac, p) == ac

leaseActive(ac, p) == ac \cup {p}

\* wait_for_job: the block that holds the lock
WaitForJob(c) ==
    /\ crashed = {}
    /\ pc[c] = "wait_for_job"
    /\ IF exitCondition(todo, active, exc) /\ proc[c] = "dead"
       THEN \* CollectExit().send fails: nobody reads the pipe any more
            /\ Catch(c, "writing to file", "")
            /\ io' = io \cup {sendIO(c)}
            /\ UNCHANGED <<todo, active, current, crashed>>
       ELSE IF todo # {}
       THEN \* AccessorPath(*begin): the JSON array in todo becomes the path
            \* that CollectDo writes
            \E o \in AccessorPathOfJson(pathJson(Begin(todo))) :
              IF ~o.ok
              THEN /\ crashed' = {c}
                   /\ io' = IF exitCondition(todo, active, exc)
                            THEN io \cup {sendIO(c)} ELSE io
                   /\ UNCHANGED <<todo, active, current, exc, woken, pc, proc,
                                  toW, fromW>>
              ELSE LET p == Begin(todo) IN
                   /\ current' = [current EXCEPT ![c] = <<p>>]
                   /\ todo' = leaseTodo(todo, p)
                   /\ active' = leaseActive(active, p)
                   /\ crashed' = crashed
                   /\ io' = io \cup {sendIO(c)}
                   /\ IF proc[c] = "dead"
                      THEN Catch(c, "writing to file", "")
                      ELSE /\ toW' = [toW EXCEPT ![c] =
                                        @ \o jobFrames(todo, active, exc, o.val)]
                           /\ pc' = [pc EXCEPT ![c] =
                                 IF waitForJobJump(todo, active, exc) = "awaitResponsesJ"
                                 THEN "await_responses" ELSE "returned"]
                           /\ UNCHANGED <<exc, woken, proc, fromW>>
       ELSE \* state.wait(wakeup)
            /\ toW' = [toW EXCEPT ![c] =
                  IF exitCondition(todo, active, exc) THEN Append(@, ExitFrame) ELSE @]
            /\ pc' = [pc EXCEPT ![c] =
                  IF waitForJobJump(todo, active, exc) = "waitForJobJ"
                  THEN "waiting" ELSE "returned"]
            /\ woken' = woken \ {c}
            /\ io' = IF exitCondition(todo, active, exc)
                     THEN io \cup {sendIO(c)} ELSE io
            /\ UNCHANGED <<todo, active, current, exc, proc, fromW, crashed>>
    /\ UNCHANGED <<forest, mainpc, exitCode, boot, stdout, restarts, env>>
    /\ UNCHANGED <<call, ret>>

\* state.wait(wakeup) returns after a notify_all
Wake(c) ==
    /\ crashed = {}
    /\ pc[c] = "waiting"
    /\ c \in woken
    /\ pc' = [pc EXCEPT ![c] = "wait_for_job"]
    /\ woken' = woken \ {c}
    /\ UNCHANGED <<forest, mainpc, exitCode, boot, todo, active, exc, stdout,
                   current, proc, toW, fromW, crashed, restarts, env>>
    /\ UNCHANGED <<io, call, ret>>

\* std::condition_variable::wait may return without a notification
SpuriousWake(c) ==
    /\ crashed = {}
    /\ pc[c] = "waiting"
    /\ c \notin woken
    /\ env < MaxEnv
    /\ env' = env + 1
    /\ pc' = [pc EXCEPT ![c] = "wait_for_job"]
    /\ UNCHANGED <<forest, mainpc, exitCode, boot, todo, active, exc, stdout,
                   current, proc, toW, fromW, woken, crashed, restarts>>
    /\ UNCHANGED <<io, call, ret>>

drvRelease_all(ac, f, cur) == {}

\* HandleJob.drv: msg.path is the path WorkDrv's constructor left empty
drvRelease(ac, f, cur) == ac \ {<<>>}

childPaths_none(f) == {}

\* HandleJob.children: the paths inserted into todo
childPaths(f) == {Append(f.path, f.children[i]) : i \in 1..Len(f.children)}

\* await_responses: read one frame and handle it as a WorkJob
AwaitResponses(c) ==
    /\ crashed = {}
    /\ pc[c] = "await_responses"
    /\ IF fromW[c] = <<>>
       THEN /\ proc[c] = "dead"
            /\ Catch(c, "worker process died unexpectedly while processing results", "")
            /\ io' = io \cup {recvIO(c)}
            /\ UNCHANGED <<todo, active, stdout, crashed>>
       ELSE LET f == Head(fromW[c]) IN
            \E r \in parseWorkJob(f) :
              CASE r \in {"abort", "crash"} ->
                     /\ crashed' = {c}
                     /\ io' = io \cup {recvIO(c)}
                     /\ UNCHANGED <<todo, active, stdout, exc, woken, pc, proc,
                                    toW, fromW>>
                [] r = "drv" ->
                     /\ stdout' = Append(stdout, Line(f.drv))
                     /\ io' = io \cup {recvIO(c), stdoutIO(c)}
                     /\ active' = drvRelease(active, f, current[c])
                     /\ woken' = woken \cup Waiting
                     /\ fromW' = [fromW EXCEPT ![c] = Tail(@)]
                     /\ UNCHANGED <<todo, exc, pc, proc, toW, crashed>>
                [] r = "children" ->
                     /\ io' = io \cup {recvIO(c)}
                     /\ todo' = todo \cup childPaths(f)
                     /\ pc' = [pc EXCEPT ![c] = "wait_for_worker"]
                     /\ fromW' = [fromW EXCEPT ![c] = Tail(@)]
                     /\ UNCHANGED <<active, stdout, exc, woken, proc, toW, crashed>>
                [] r = "done" ->
                     /\ io' = io \cup {recvIO(c)}
                     /\ pc' = [pc EXCEPT ![c] = "wait_for_worker"]
                     /\ fromW' = [fromW EXCEPT ![c] = Tail(@)]
                     /\ UNCHANGED <<todo, active, stdout, exc, woken, proc, toW,
                                    crashed>>
                [] r = "error" ->
                     /\ io' = io \cup {recvIO(c)}
                     /\ Catch(c, "worker error", ErrorDetail(f))
                     /\ UNCHANGED <<todo, active, stdout, crashed>>
                [] OTHER ->
                     /\ io' = io \cup {recvIO(c)}
                     /\ Catch(c, "could not parse WorkJob", "")
                     /\ UNCHANGED <<todo, active, stdout, crashed>>
    /\ UNCHANGED <<forest, mainpc, exitCode, boot, current, restarts, env>>
    /\ UNCHANGED <<call, ret>>

(***************************************************************************)
(* worker                                                                  *)
(***************************************************************************)
teardown_silent == <<>>

\* after the loop: writeLine(to.get(), "restart"), and the process ends
teardown == <<RestartFrame>>

\* one turn of the worker's loop from readLine on: the request is read,
\* answered, the RSS is sampled and "next" or "restart" is written
Worker(c) ==
    /\ crashed = {}
    /\ proc[c] = "live"
    /\ toW[c] # <<>>
    /\ LET f == Head(toW[c]) IN
       /\ toW' = [toW EXCEPT ![c] = Tail(@)]
       /\ IF f.t = "exit"
          THEN /\ fromW' = [fromW EXCEPT ![c] = @ \o teardown]
               /\ proc' = [proc EXCEPT ![c] = "dead"]
               /\ restarts' = restarts
          ELSE IF f.t # "do"
          THEN \* abort()
               /\ proc' = [proc EXCEPT ![c] = "dead"]
               /\ UNCHANGED <<fromW, restarts>>
          ELSE \* CollectDo(s): the text after "do " becomes an AccessorPath
               \E o \in AccessorPathOfString(stringify(f.path)) :
                 LET r == workerReply(forest, o.val,
                                      IF o.ok THEN "works" ELSE "crash") IN
                 IF r.dies
                 THEN /\ fromW' = [fromW EXCEPT ![c] = @ \o r.frames]
                      /\ proc' = [proc EXCEPT ![c] = "dead"]
                      /\ restarts' = restarts
                 ELSE \E rss \in RssSamples :
                        IF OverLimit(rss)
                        THEN /\ restarts < MaxRestarts
                             /\ restarts' = restarts + 1
                             /\ fromW' = [fromW EXCEPT ![c] =
                                            @ \o r.frames \o teardown]
                             /\ proc' = [proc EXCEPT ![c] = "dead"]
                        ELSE /\ restarts' = restarts
                             /\ fromW' = [fromW EXCEPT ![c] =
                                            @ \o r.frames \o <<NextFrame>>]
                             /\ proc' = proc
    /\ UNCHANGED <<forest, mainpc, exitCode, boot, todo, active, exc, stdout,
                   pc, current, woken, crashed, env>>
    /\ UNCHANGED <<io, call, ret>>

\* The answers to "do p" that the worker loop of this code never writes:
\* the children of an inner node followed by "done" (the protocol's answer
\* for an attribute set or a list), a line that is no JSON, a JSON object
\* of another shape.
otherAnswers(F, p) ==
    {<<GarbageFrame>>, <<JunkFrame>>}
    \cup (IF p \in DOMAIN F /\ F[p].kind \in {"attrs", "list"}
          THEN {<<ChildrenFrame(p, F[p].children), DoneFrame>>} ELSE {})

\* a worker that answers "do p" in one of those ways and goes on
OtherWorker(c) ==
    /\ crashed = {}
    /\ proc[c] = "live"
    /\ toW[c] # <<>>
    /\ Head(toW[c]).t = "do"
    /\ env < MaxEnv
    /\ env' = env + 1
    /\ toW' = [toW EXCEPT ![c] = Tail(@)]
    /\ \E a \in otherAnswers(forest, Head(toW[c]).path) :
         fromW' = [fromW EXCEPT ![c] = @ \o a \o <<NextFrame>>]
    /\ UNCHANGED <<forest, mainpc, exitCode, boot, todo, active, exc, stdout,
                   pc, current, proc, woken, crashed, restarts>>
    /\ UNCHANGED <<io, call, ret>>

Next ==
    \/ SpawnBootstrap
    \/ InitStateRead
    \/ StartThreads
    \/ JoinThreads
    \/ \E c \in Coord : SpawnWorker(c)
    \/ \E c \in Coord : WaitForWorker(c)
    \/ \E c \in Coord : WaitForJob(c)
    \/ \E c \in Coord : Wake(c)
    \/ \E c \in Coord : SpuriousWake(c)
    \/ \E c \in Coord : AwaitResponses(c)
    \/ \E c \in Coord : Worker(c)
    \/ \E c \in Coord : OtherWorker(c)

Spec == Init /\ [][Next]_vars

TypeOK ==
    /\ mainpc \in {"start", "initState", "threads", "join", "exited"}
    /\ exitCode \in {-1, 0, 1}
    /\ \A c \in Coord : pc[c] \in {"unstarted", "wait_for_worker", "wait_for_job",
                                   "waiting", "await_responses", "returned"}
    /\ \A c \in Coord : proc[c] \in {"none", "live", "dead"}
    /\ woken \subseteq Coord
    /\ crashed \subseteq Coord \cup {0}
    /\ \A r \in io : r.by \in Coord \cup {0} /\ r.locked \in BOOLEAN

(***************************************************************************)
(* GC roots: Drvs::eval (src/src/job.cc)                                   *)
(***************************************************************************)
\* a path of the file system: its directory and its last component
Path(d, b) == [dir |-> d, base |-> b]
baseNameOf(p) == p.base

\* the file system: the entries there are, each a path and what it points to
Entry(p, t) == [at |-> p, to |-> t]

pathExists_never(fs, p) == FALSE

pathExists(fs, p) == \E e \in fs : e.at = p

\* LocalFSStore::addPermRoot: the symlink `root` to the store path,
\* renamed over whatever is there
addPermRoot(fs, storePath, root) ==
    {e \in fs : e.at # root} \cup {Entry(root, storePath)}

\* Drvs::eval, the loop over this->drvs: ds are the drvPaths
RECURSIVE registerRoots(_, _, _)
registerRoots(gcRootsDir, ds, fs) ==
    IF ds = <<>> THEN fs
    ELSE LET root == Path(gcRootsDir, baseNameOf(Head(ds)))
         IN  registerRoots(gcRootsDir, Tail(ds),
                           IF ~pathExists(fs, root)
                           THEN addPermRoot(fs, Head(ds), root)
                           ELSE fs)

\* Drvs::eval: the file system it leaves
DrvsEval(gcRootsDir, ds, fs) ==
    IF gcRootsDir # "" THEN registerRoots(gcRootsDir, ds, fs) ELSE fs

(***************************************************************************)
(* The functions above applied on their own: one call, drawn from the      *)
(* sets below, while the program is left as it was constructed             *)
(***************************************************************************)
Call(f, a) == [fn |-> f, arg |-> a]
Returned == ret.err # "pending"

\* all sequences over S of length n, and up to n
RECURSIVE SeqsOfLen(_, _)
SeqsOfLen(S, n) ==
    IF n = 0 THEN {<<>>}
    ELSE {Append(s, x) : s \in SeqsOfLen(S, n - 1), x \in S}

SeqsUpTo(S, n) == UNION {SeqsOfLen(S, k) : k \in 0..n}

\* accessors as the program makes them: Names not empty (some of digits
\* only), Indexes not negative
Accessors == {Name("a"), Name("0"), Name("12")} \cup {Index(i) : i \in 0..MaxIdx}
Paths == SeqsUpTo(Accessors, MaxPathLen)

\* JSON values of every type, as their texts
JsonSamples ==
    {JNull, JBool(TRUE), JBool(FALSE), JUnsigned(0), JUnsigned(MaxIdx),
     JInteger(-1), JInteger(-2), JFloat(1, "5"), JString(""), JString("a"),
     JString("12"), JArray, JObject}
JsonTexts == {dump(j) : j \in JsonSamples}

\* lines a coordinator can read from a pipe
FrameSamples ==
    {NextFrame, RestartFrame, DoneFrame, GarbageFrame, JunkFrame,
     ErrorFrame("e"), DrvFrame(<<Name("a")>>, Drv("dA", "x86_64-linux")),
     ChildrenFrame(<<>>, <<Name("a")>>)}

\* jobs, GC-roots directories and file systems
StoreDrvs == {Path("/nix/store", "dA.drv"), Path("/nix/store", "dB.drv")}
RootDirs == {"", "/roots"}
FileSystems ==
    SUBSET {Entry(Path("/roots", "dA.drv"), Path("/elsewhere", "x")),
            Entry(Path("/roots", "keep"), Path("/nix/store", "dB.drv"))}
EvalArgs ==
    {[dir |-> d, drvs |-> ds, fs |-> fs] :
        d \in RootDirs, ds \in SeqsUpTo(StoreDrvs, MaxDrvs), fs \in FileSystems}

\* values getJob can be given: only an attribute set or a list lets
\* getDerivations return
JobValues ==
    {n \in {Node(k, g, d, <<>>) :
               k \in {"attrs", "list", "other"},
               g \in {"ok", "TypeError", "EvalError"},
               d \in SeqsUpTo({Drv("dA", "x86_64-linux"), Drv("dU", "unknown")},
                              MaxDrvs)} :
        /\ n.gd = "ok" \/ n.drvs = <<>>
        /\ n.kind = "other" => n.gd # "ok"}

InitApply ==
    /\ InitProg(ForestEmpty)
    /\ \/ \E p \in Paths : call = Call("roundtrip", p)
       \/ \E t \in JsonTexts : call = Call("accessorFromJson", t)
       \/ \E f \in FrameSamples : call = Call("parseWorkJob", f)
       \/ \E f \in FrameSamples : call = Call("parseWorkMsg", f)
       \/ \E a \in EvalArgs : call = Call("eval", a)
       \/ \E n \in JobValues : call = Call("getJob", n)
       \/ \E rss \in RssSamples : call = Call("rssCheck", rss)
    /\ ret = NoRet

\* the path call.arg is written as a text, and an AccessorPath is made of
\* the text
ApplyRoundTrip ==
    /\ call.fn = "roundtrip" /\ ~Returned
    /\ ret' \in AccessorPathOfString(stringify(call.arg))
    /\ UNCHANGED <<prog, call>>

ApplyAccessorFromJson ==
    /\ call.fn = "accessorFromJson" /\ ~Returned
    /\ ret' = accessorFromJson(parse(call.arg))
    /\ UNCHANGED <<prog, call>>

\* what a parser of frames yields, as the result of a call
Variant(r) == IF r \in {"TypeError", "abort", "crash"} THEN Fail(r) ELSE Ok(r)

ApplyParseWorkJob ==
    /\ call.fn = "parseWorkJob" /\ ~Returned
    /\ \E r \in parseWorkJob(call.arg) : ret' = Variant(r)
    /\ UNCHANGED <<prog, call>>

ApplyParseWorkMsg ==
    /\ call.fn = "parseWorkMsg" /\ ~Returned
    /\ \E r \in parseWorkMsg(call.arg) : ret' = Variant(r)
    /\ UNCHANGED <<prog, call>>

\* job->eval(state) of a Drvs job, for the first time and once more on
\* the file system the first time left
ApplyDrvsEval ==
    /\ call.fn = "eval" /\ ~Returned
    /\ LET fs1 == DrvsEval(call.arg.dir, call.arg.drvs, call.arg.fs)
       IN  ret' = Ok([first |-> fs1, last |-> fs1, evals |-> 1])
    /\ UNCHANGED <<prog, call>>

ApplyDrvsEvalAgain ==
    /\ call.fn = "eval" /\ Returned /\ ret.val.evals = 1
    /\ ret' = Ok([first |-> ret.val.first,
                  last |-> DrvsEval(call.arg.dir, call.arg.drvs, ret.val.last),
                  evals |-> 2])
    /\ UNCHANGED <<prog, call>>

ApplyGetJob ==
    /\ call.fn = "getJob" /\ ~Returned
    /\ ret' = getJob(call.arg)
    /\ UNCHANGED <<prog, call>>

\* the test after a job: does the worker leave its loop
ApplyRssCheck ==
    /\ call.fn = "rssCheck" /\ ~Returned
    /\ ret' = Ok(OverLimit(call.arg))
    /\ UNCHANGED <<prog, call>>

NextApply ==
    \/ ApplyRoundTrip
    \/ ApplyAccessorFromJson
    \/ ApplyParseWorkJob
    \/ ApplyParseWorkMsg
    \/ ApplyDrvsEval
    \/ ApplyDrvsEvalAgain
    \/ ApplyGetJob
    \/ ApplyRssCheck

SpecApply == InitApply /\ [][NextApply]_vars

(***************************************************************************)
(* Notions the properties are stated with                                  *)
(***************************************************************************)
\* the class of the value at a node, in the order Drvs > Attrs > List
Classify(n) ==
    IF n.gd = "ok" /\ n.drvs # <<>> THEN "Drvs"
    ELSE IF n.kind = "attrs" THEN "Attrs"
    ELSE IF n.kind = "list" THEN "List"
    ELSE "none"

\* the locations of the leaf derivations: nodes classified Drvs that are
\* reached from the root through attribute sets and lists only
Leaves(F) ==
    {p \in DOMAIN F :
        /\ Classify(F[p]) = "Drvs"
        /\ \A k \in 0..(Len(p) - 1) :
              /\ SubSeq(p, 1, k) \in DOMAIN F
              /\ Classify(F[SubSeq(p, 1, k)]) \in {"Attrs", "List"}}

\* the lines of stdout that carry the key "path" with the value p
LinesAt(p) == {i \in 1..Len(stdout) : "path" \in stdout[i].keys /\ stdout[i].path = p}

\* stdout is the specified output for the forest
OutputIsLeaves ==
    /\ \A i \in 1..Len(stdout) :
          "path" \in stdout[i].keys /\ stdout[i].path \in Leaves(forest)
    /\ \A p \in Leaves(forest) : Cardinality(LinesAt(p)) = 1

AllReturned == \A c \in Coord : pc[c] = "returned"

\* main is in join() and every collector that has not returned is inside
\* state.wait(wakeup) with no notification pending: nothing but a spurious
\* wakeup lets the run go on
Blocked ==
    /\ mainpc = "join"
    /\ crashed = {}
    /\ Waiting # {}
    /\ woken \cap Waiting = {}
    /\ \A c \in Coord : pc[c] \in {"waiting", "returned"}

\* main has joined every collector and returned
Joined == mainpc = "exited" /\ AllReturned

\* the run of the collectors has ended: main has joined them, or it never
\* will
RunOver == Joined \/ Blocked

\* the run met nothing but the code of this repository and its evaluator
NoEnv == env = 0

(***************************************************************************)
(* C1                                                                      *)
(***************************************************************************)
\* C1: when a run is over with exc unset, the paths carried by the lines
\* of stdout are exactly the leaf-derivation locations of the expression,
\* each of them once, and no other line was written.
C1_LeavesEmittedOnce ==
    (RunOver /\ ~exc.set /\ NoEnv) => OutputIsLeaves

(***************************************************************************)
(* C2                                                                      *)
(***************************************************************************)
\* the bootstrap found an empty attribute set and the threads were started
EmptyTopLevel == forest = ForestEmpty /\ mainpc \in {"join", "exited"}

\* C2: for an empty top-level attribute set every collector returns (the
\* run never ends up with a collector blocked for good), stdout stays
\* empty, exc stays unset and main returns 0.
C2_EmptyRunExitsZero ==
    (EmptyTopLevel /\ NoEnv) =>
        /\ ~Blocked
        /\ stdout = <<>>
        /\ ~exc.set
        /\ (mainpc = "exited" => exitCode = 0)

(***************************************************************************)
(* C3                                                                      *)
(***************************************************************************)
\* C3: an evaluation error raised while a worker processes "do p" is not
\* fatal: exc is never set to the error that worker reported.
C3_EvalErrorNotFatal ==
    ~(exc.set /\ exc.what = "worker error" /\ exc.detail = EvalMsg)

(***************************************************************************)
(* C4                                                                      *)
(***************************************************************************)
\* C4: no path is in todo and in active at once.
C4_TodoActiveDisjoint == todo \cap active = {}

\* a path is leased while paths a children frame inserted wait in todo
C4_Witness ==
    /\ active # {}
    /\ \E q \in todo : Len(q) > 1

(***************************************************************************)
(* C5                                                                      *)
(***************************************************************************)
\* C5: a collector that leaves wait_for_job having found, under the lock,
\* todo and active both empty or exc set, has written "exit" to its worker
\* and returned; it has leased nothing, written no "do" and is not waiting
\* on the condition variable.
C5_ExitAndReturn ==
    [][\A c \in Coord :
          (/\ pc[c] = "wait_for_job"
           /\ pc'[c] # "wait_for_job"
           /\ proc[c] = "live"
           /\ exitCondition(todo, active, exc))
          => /\ pc'[c] = "returned"
             /\ toW'[c] = Append(toW[c], ExitFrame)
             /\ todo' = todo
             /\ active' = active]_vars

(***************************************************************************)
(* C6                                                                      *)
(***************************************************************************)
\* C6: once exc is set the run does not hang: it never comes to a state
\* where main waits in join() for a collector that is blocked on the
\* condition variable with nothing left to notify it.
C6_NoHangAfterExc == (exc.set /\ NoEnv) => ~Blocked

(***************************************************************************)
(* C7                                                                      *)
(***************************************************************************)
\* C7: when main has joined every collector and returned, its status is
\* non-zero exactly if exc is set, and 0 if exc is unset.
C7_ExitStatus ==
    Joined => /\ (exitCode # 0 <=> exc.set)
              /\ (~exc.set => exitCode = 0)

\* main has joined the collectors and rethrown the stored exception
C7_Witness == Joined /\ exc.set /\ exitCode = 1

(***************************************************************************)
(* C8                                                                      *)
(***************************************************************************)
\* the variants a collector expects where it reads
ExpectedHere(c, f) ==
    IF pc[c] = "wait_for_worker" THEN f.t \in {"next", "restart", "error"}
    ELSE f.t \in {"drv", "children", "done", "error"}

\* collector c is about to read a frame it does not expect, or the end of
\* the pipe
UnexpectedRead(c) ==
    /\ pc[c] \in {"wait_for_worker", "await_responses"}
    /\ proc[c] # "none"
    /\ IF fromW[c] = <<>> THEN proc[c] = "dead" ELSE ~ExpectedHere(c, Head(fromW[c]))

\* this step is collector c reading from its worker
ReadStep(c) ==
    \/ pc'[c] # pc[c]
    \/ crashed' = {c}
    \/ fromW[c] # <<>> /\ fromW'[c] = Tail(fromW[c])

\* C8: a collector that reads a frame of no expected variant, or the end of
\* the pipe, stores an error in exc and notifies every waiting collector;
\* the frame changes neither stdout nor todo.
C8_UnexpectedFrameFatal ==
    [][\A c \in Coord :
          (UnexpectedRead(c) /\ ReadStep(c))
          => /\ exc'.set /\ exc'.by = c
             /\ (Waiting \ {c}) \subseteq woken'
             /\ stdout' = stdout
             /\ todo' = todo]_vars

(***************************************************************************)
(* C9                                                                      *)
(***************************************************************************)
\* every path below the root is a leaf derivation: each job completes
JobsComplete(F) ==
    \A p \in DOMAIN F \ {<<>>} : p \in Leaves(F) /\ ~UnknownSystem(F[p])

\* C9: a run in which a worker wrote "restart" after a job because its RSS
\* was over the limit ends like a run without restarts: main joins the
\* collectors and returns 0, exc is unset and stdout holds the leaves.
C9_RestartRunCompletes ==
    (restarts > 0 /\ JobsComplete(forest) /\ NoEnv /\ RunOver) =>
        /\ Joined
        /\ ~exc.set
        /\ exitCode = 0
        /\ OutputIsLeaves

(***************************************************************************)
(* C10                                                                     *)
(***************************************************************************)
\* the bootstrap reported the root as a derivation and the threads run
SingleTopLevel == forest = ForestSingle /\ mainpc \in {"join", "exited"}

\* C10: when the root is a single derivation, stdout holds exactly one
\* line, todo stays empty, no path is leased, no collector stays blocked
\* and main returns 0.
C10_SingleDrvRun ==
    (SingleTopLevel /\ NoEnv) =>
        /\ Len(stdout) = 1
        /\ todo = {}
        /\ active = {}
        /\ \A c \in Coord : current[c] = <<>>
        /\ ~Blocked
        /\ (mainpc = "exited" => exitCode = 0)

(***************************************************************************)
(* C11                                                                     *)
(***************************************************************************)
\* the keys every line for a leaf derivation has to carry
LineKeys == DrvKeys \cup {"path"}

\* C11: a collector that writes a line to stdout writes one with the keys
\* name, system, drvPath, outputs and path, and the path is the one of the
\* "do" request the frame answers, the path the collector has leased.
C11_LineCarriesPath ==
    [][\A c \in Coord :
          (/\ pc[c] = "await_responses"
           /\ fromW[c] # <<>>
           /\ fromW'[c] = Tail(fromW[c])
           /\ Len(stdout') = Len(stdout) + 1)
          => LET l == stdout'[Len(stdout')] IN
             /\ LineKeys \subseteq l.keys
             /\ l.path = current[c][1]]_vars

(***************************************************************************)
(* C12                                                                     *)
(***************************************************************************)
\* C12: no collector reads from or writes to a worker's pipe while it
\* holds the lock.
C12_NoPipeIOUnderLock ==
    \A r \in io : (r.by \in Coord /\ r.op \in {"send", "recv"}) => ~r.locked

(***************************************************************************)
(* C13                                                                     *)
(***************************************************************************)
\* C13: every line a collector writes to stdout is written while the
\* collector holds the lock.
C13_StdoutUnderLock ==
    \A r \in io : (r.by \in Coord /\ r.op = "stdout") => r.locked

\* two collectors have each written a line
C13_Witness ==
    /\ Len(stdout) >= 2
    /\ \E c, d \in Coord :
          /\ c # d
          /\ {IO(c, "stdout", TRUE), IO(d, "stdout", TRUE)} \subseteq io

(***************************************************************************)
(* C14                                                                     *)
(***************************************************************************)
\* this step is the worker of collector c answering "do p" for a node one
\* of whose derivations has the system "unknown"
AnswersUnknown(c) ==
    /\ proc[c] = "live"
    /\ toW[c] # <<>>
    /\ Head(toW[c]).t = "do"
    /\ Head(toW[c]).path \in DOMAIN forest
    /\ UnknownSystem(forest[Head(toW[c]).path])
    /\ toW'[c] = Tail(toW[c])
    /\ pc'[c] = pc[c]
    /\ env' = env
    /\ fromW'[c] # fromW[c]

\* C14: no frame on a pipe and no line of stdout carries a derivation with
\* the system "unknown", and a worker asked for a path where such a
\* derivation is found answers with an error frame and no leaf frame.
C14_UnknownSystemIsError ==
    [][/\ \A i \in 1..Len(stdout') : stdout'[i].drv.system # "unknown"
       /\ \A i \in 1..Len(boot') : boot'[i].drv.system # "unknown"
       /\ \A c \in Coord :
             /\ \A i \in 1..Len(fromW'[c]) : fromW'[c][i].drv.system # "unknown"
             /\ AnswersUnknown(c) =>
                   LET n == Len(fromW[c]) IN
                   /\ fromW'[c][n + 1].t = "error"
                   /\ \A i \in (n + 1)..Len(fromW'[c]) : fromW'[c][i].t # "drv"]_vars

\* a collector has before it the error frame its worker wrote for such a
\* path
C14_Witness ==
    \E c \in Coord :
       /\ pc[c] = "await_responses"
       /\ current[c] # <<>>
       /\ current[c][1] \in DOMAIN forest
       /\ UnknownSystem(forest[current[c][1]])
       /\ fromW[c] # <<>>
       /\ Head(fromW[c]).t = "error"

(***************************************************************************)
(* C15                                                                     *)
(***************************************************************************)
\* C15: a path of non-empty Names and non-negative Indexes, the empty path
\* and Names of digits included, that is written as JSON text and then
\* parsed comes back as a path equal to it: the parse returns, and returns
\* the same accessors in the same order.
C15_RoundTrip ==
    (call.fn = "roundtrip" /\ Returned) => (ret.ok /\ ret.val = call.arg)

(***************************************************************************)
(* C16                                                                     *)
(***************************************************************************)
\* what the claim has parse_accessor yield for the JSON value j
AccessorExpected(j) ==
    IF j.jt = "number_unsigned" THEN Ok(Index(j.n))
    ELSE IF j.jt = "string" /\ j.s # "" THEN Ok(Name(j.s))
    ELSE Fail("TypeError")

\* C16: accessorFromJson yields an Index of the same value for a JSON
\* integer that is not negative, a Name for a string that is not empty,
\* and fails with TypeError, yielding no accessor, for every other JSON
\* value: the empty string, a negative integer, a boolean, a float, null,
\* an array, an object.
C16_AccessorAcceptance ==
    (call.fn = "accessorFromJson" /\ Returned) =>
        LET e == AccessorExpected(parse(call.arg))
        IN  /\ ret.ok = e.ok
            /\ ret.ok => ret.val = e.val
            /\ ~ret.ok => ret.err = "TypeError"

(***************************************************************************)
(* C17                                                                     *)
(***************************************************************************)
\* the keys by which the claim tells the JSON variants apart
ShapeKeys == {"error", "children", "drvPath"}

\* C17: parseWorkJob and parseWorkMsg yield a variant only for a frame of
\* that variant's shape: an error only for a JSON object with the key
\* "error", children only with the key "children", a leaf only with the key
\* "drvPath", done only for the literal "done"; and a JSON object with
\* none of these keys is refused with TypeError, no variant is made of it.
C17_VariantByShape ==
    (call.fn \in {"parseWorkJob", "parseWorkMsg"} /\ Returned) =>
        LET f == call.arg IN
        /\ ret.ok =>
             /\ ret.val = "error" => "error" \in Keys(f)
             /\ ret.val = "children" => "children" \in Keys(f)
             /\ ret.val = "drv" => "drvPath" \in Keys(f)
             /\ ret.val = "done" => f.t = "done"
        /\ (IsJson(f) /\ Keys(f) \cap ShapeKeys = {}) =>
             (~ret.ok /\ ret.err = "TypeError")

(***************************************************************************)
(* C18                                                                     *)
(***************************************************************************)
\* the root Drvs::eval registers for the derivation at drvPath
RootOf(dir, drvPath) == Path(dir, baseNameOf(drvPath))

\* C18: Drvs::eval with a GC-roots directory leaves, for each Drv, a root
\* named by the basename of its drvPath that points to it, unless an entry
\* of that name was there, and then that entry is as it was; nothing else
\* is added and nothing removed; a second evaluation of the same job
\* leaves the file system as the first left it; and with no directory the
\* file system is never changed.
C18_GcRootsIdempotent ==
    (call.fn = "eval" /\ Returned) =>
        LET a == call.arg
            fs1 == ret.val.first
        IN  /\ a.dir = "" => (fs1 = a.fs /\ ret.val.last = a.fs)
            /\ a.dir # "" =>
                 /\ a.fs \subseteq fs1
                 /\ \A i \in 1..Len(a.drvs) :
                      LET root == RootOf(a.dir, a.drvs[i])
                      IN  {e \in fs1 : e.at = root} =
                            IF \E e \in a.fs : e.at = root
                            THEN {e \in a.fs : e.at = root}
                            ELSE {Entry(root, a.drvs[i])}
                 /\ \A e \in fs1 \ a.fs :
                      \E i \in 1..Len(a.drvs) : e.at = RootOf(a.dir, a.drvs[i])
            /\ ret.val.last = fs1

\* a job evaluated twice with a directory in which one of its roots was
\* there before and another was not
C18_Witness ==
    /\ call.fn = "eval" /\ Returned /\ ret.val.evals = 2
    /\ call.arg.dir # ""
    /\ \E i, k \in 1..Len(call.arg.drvs) :
         /\ \E e \in call.arg.fs : e.at = RootOf(call.arg.dir, call.arg.drvs[i])
         /\ \A e \in call.arg.fs : e.at # RootOf(call.arg.dir, call.arg.drvs[k])
         /\ Entry(RootOf(call.arg.dir, call.arg.drvs[k]), call.arg.drvs[k]) \in ret.val.last

(***************************************************************************)
(* C19                                                                     *)
(***************************************************************************)
\* The scheduler of the operating system lets every thread and every
\* process that can take a step take one in the end: main, each collector
\* (also when its wait is notified) and each worker.  Spurious wakeups and
\* workers that answer otherwise are not owed to any run.
Fairness ==
    /\ WF_vars(SpawnBootstrap)
    /\ WF_vars(InitStateRead)
    /\ WF_vars(StartThreads)
    /\ WF_vars(JoinThreads)
    /\ \A c \in Coord :
         /\ WF_vars(SpawnWorker(c))
         /\ WF_vars(WaitForWorker(c))
         /\ WF_vars(WaitForJob(c))
         /\ WF_vars(Wake(c))
         /\ WF_vars(AwaitResponses(c))
         /\ WF_vars(Worker(c))

FairSpec == Spec /\ Fairness

\* nothing is left to do, every collector has returned and none has failed
Quiescent == todo = {} /\ active = {} /\ AllReturned /\ ~exc.set

\* C19: when no evaluation of the forest fails, every fair run in which
\* the environment does nothing and the process is not killed reaches a
\* state with todo and active empty, every collector returned after its
\* "exit" and exc unset.
C19_EventuallyQuiescent ==
    <>(Quiescent \/ ~JobsComplete(forest) \/ ~NoEnv \/ crashed # {})

(***************************************************************************)
(* C20                                                                     *)
(***************************************************************************)
\* the frames a step appends to the pipe to the worker of c
Appended(c) ==
    IF Len(toW'[c]) > Len(toW[c]) /\ SubSeq(toW'[c], 1, Len(toW[c])) = toW[c]
    THEN SubSeq(toW'[c], Len(toW[c]) + 1, Len(toW'[c]))
    ELSE <<>>

Handles(c, t) ==
    /\ pc[c] = "await_responses"
    /\ fromW[c] # <<>>
    /\ Head(fromW[c]).t = t
    /\ fromW'[c] = Tail(fromW[c])

\* C21: a collector that reads "done" for the path it has leased takes that
\* path out of active and notifies the waiting collectors, and goes back to
\* wait_for_worker with its worker kept.
C21_DoneReleases ==
    [][\A c \in Coord :
          (Handles(c, "done") /\ current[c] # <<>>)
          => /\ current[c][1] \notin active'
             /\ Waiting \subseteq woken'
             /\ pc'[c] = "wait_for_worker"
             /\ proc'[c] = proc[c]]_vars

(***************************************************************************)
(* C22                                                                     *)
(***************************************************************************)
\* C22: a collector that reads a leaf-derivation frame for the path it has
\* leased writes one line to stdout, takes exactly that path out of active,
\* no other, and notifies the waiting collectors.
C22_DrvReleasesLeased ==
    [][\A c \in Coord :
          (Handles(c, "drv") /\ current[c] # <<>>)
          => /\ Len(stdout') = Len(stdout) + 1
             /\ active' = active \ {current[c][1]}
             /\ Waiting \subseteq woken']_vars

(***************************************************************************)
(* C23                                                                     *)
(***************************************************************************)
\* the paths p || c1 .. p || cn for the children cs
Extensions(p, cs) == {p \o <<cs[i]>> : i \in 1..Len(cs)}

C24_ChildrenKeepsAwaiting ==
    [][\A c \in Coord :
          Handles(c, "children") => pc'[c] = "await_responses"]_vars

(***************************************************************************)
(* C25                                                                     *)
(***************************************************************************)
\* C25: a collector that inserts children into todo notifies the condition
\* variable in the same step: every collector that waits because todo was
\* empty has its wakeup pending afterwards, none is lost.
C25_ChildrenNotify ==
    [][\A c \in Coord :
          (Handles(c, "children") /\ todo' # todo) => Waiting \subseteq woken']_vars

(***************************************************************************)
(* C26                                                                     *)
(***************************************************************************)
\* the children frames a worker has written that no collector has handled
\* yet: the children they report are not enqueued so far
ReportedNotEnqueued ==
    {f \in UNION {{fromW[c][i] : i \in 1..Len(fromW[c])} : c \in Coord} :
        f.t = "children" /\ f.children # <<>>}

WorkerTurn(c) ==
    /\ proc[c] = "live"
    /\ toW[c] # <<>>
    /\ toW'[c] = Tail(toW[c])
    /\ pc'[c] = pc[c]
    /\ env' = env

\* the frames the worker of c writes in this step
Written(c) ==
    IF Len(fromW'[c]) > Len(fromW[c])
    THEN SubSeq(fromW'[c], Len(fromW[c]) + 1, Len(fromW'[c]))
    ELSE <<>>

\* the worker of c answers "do" in this step, no exception is raised and
\* the turn comes to its end: no error frame, and "next" or "restart" last
AnswersDone(c) ==
    /\ WorkerTurn(c)
    /\ Head(toW[c]).t = "do"
    /\ Written(c) # <<>>
    /\ Written(c)[Len(Written(c))].t \in {"next", "restart"}
    /\ \A i \in 1..Len(Written(c)) : Written(c)[i].t # "error"

\* C27: a worker that answers "do P" without an exception writes the result
\* frames of P and then "done" once: with no result, with one and with
\* several, "done" is there, it is the last frame of the answer and it
\* stands nowhere between two results.
C27_ResultsThenOneDone ==
    [][\A c \in Coord :
          AnswersDone(c) =>
             LET n == Len(Written(c)) - 1 IN
             /\ n >= 1
             /\ Written(c)[n].t = "done"
             /\ \A i \in 1..(n - 1) : Written(c)[i].t = "drv"]_vars

(***************************************************************************)
(* C28                                                                     *)
(***************************************************************************)
\* walking to the node n or making its job raises an EvalError (a
\* TypeError is one) in the worker
RaisesEvalError(n) ==
    \/ n.gd = "EvalError"
    \/ n.gd = "TypeError" /\ n.kind \notin {"attrs", "list"}
    \/ n.gd = "ok" /\ UnknownSystem(n)

\* this step is the worker of c answering "do P" where P raises such an
\* error: the worker has got as far as the evaluation and written something
AnswersError(c) ==
    /\ WorkerTurn(c)
    /\ Head(toW[c]).t = "do"
    /\ Head(toW[c]).path \in DOMAIN forest
    /\ RaisesEvalError(forest[Head(toW[c]).path])
    /\ Written(c) # <<>>

\* C28: a worker in which "do P" raises an evaluation or type error writes
\* one error frame for the request and nothing else but the frame that
\* ends the turn: "next", after which the process lives on and takes the
\* next request, or "restart" when its RSS is over the limit.
C28_ErrorFrameAndGoOn ==
    [][\A c \in Coord :
          AnswersError(c) =>
             /\ Len(Written(c)) = 2
             /\ Written(c)[1].t = "error"
             /\ \/ Written(c)[2].t = "next" /\ proc'[c] = "live" /\ restarts' = restarts
                \/ Written(c)[2].t = "restart" /\ restarts' = restarts + 1]_vars

\* the answer to a request that raised an error lies before the collector
\* and the worker is alive
C28_Witness ==
    \E c \in Coord :
       /\ pc[c] = "await_responses"
       /\ current[c] # <<>>
       /\ current[c][1] \in DOMAIN forest
       /\ forest[current[c][1]].gd = "EvalError"
       /\ fromW[c] = <<ErrorFrame(EvalMsg), NextFrame>>
       /\ proc[c] = "live"

(***************************************************************************)
(* C29                                                                     *)
(***************************************************************************)
\* this step is the worker of c leaving its loop: it has read "exit", or
\* its RSS is over the limit after a request
LeavesLoop(c) ==
    /\ WorkerTurn(c)
    /\ \/ Head(toW[c]).t = "exit"
       \/ restarts' = restarts + 1

\* C29: a worker that leaves its loop, for "exit" or for the memory check,
\* writes "restart" as its last frame and ends; and on no pipe is there
\* ever a frame behind a "restart".
C29_RestartIsLast ==
    [][\A c \in Coord :
          /\ LeavesLoop(c) =>
                /\ Written(c) # <<>>
                /\ Written(c)[Len(Written(c))].t = "restart"
                /\ proc'[c] = "dead"
          /\ \A i \in 1..(Len(fromW'[c]) - 1) : fromW'[c][i].t # "restart"]_vars

\* a worker has answered a request, found its RSS over the limit and
\* ended: "restart" is the last of the frames it left
C29_Witness ==
    /\ restarts > 0
    /\ \E c \in Coord :
         /\ proc[c] = "dead"
         /\ fromW[c] # <<>>
         /\ fromW[c][Len(fromW[c])].t = "restart"
         /\ Len(fromW[c]) > 1

(***************************************************************************)
(* C30                                                                     *)
(***************************************************************************)
\* this step is a step of collector c or of its worker
Moves(c) ==
    \/ pc'[c] # pc[c]
    \/ proc'[c] # proc[c]
    \/ fromW'[c] # fromW[c]
    \/ toW'[c] # toW[c]

\* collector c is in wait_for_worker with "restart" next in the pipe
AtRestart(c) ==
    /\ pc[c] = "wait_for_worker"
    /\ proc[c] # "none"
    /\ fromW[c] # <<>>
    /\ Head(fromW[c]).t = "restart"

\* C30: a collector that reads "restart" in wait_for_worker detaches its
\* worker and stays in wait_for_worker, with todo, active and exc as they
\* were; and a collector without a worker does nothing but attach a fresh
\* one, so that it reads again only from the new worker and has never two.
C30_RestartRespawns ==
    [][\A c \in Coord :
          /\ (AtRestart(c) /\ Moves(c)) =>
                /\ proc'[c] = "none"
                /\ fromW'[c] = <<>> /\ toW'[c] = <<>>
                /\ pc'[c] = "wait_for_worker"
                /\ todo' = todo /\ active' = active /\ exc' = exc
          /\ (pc[c] = "wait_for_worker" /\ proc[c] = "none" /\ Moves(c)) =>
                /\ proc'[c] # "none"
                /\ pc'[c] = "wait_for_worker"
                /\ Len(fromW'[c]) > 0
                /\ todo' = todo /\ active' = active /\ exc' = exc]_vars

\* a collector that has had a lease has read "restart" and detached its
\* worker; paths are still in the scheduler state
C30_Witness ==
    \E c \in Coord :
       /\ pc[c] = "wait_for_worker"
       /\ proc[c] = "none"
       /\ current[c] # <<>>
       /\ active # {}

(***************************************************************************)
(* C31                                                                     *)
(***************************************************************************)
\* collector c is in wait_for_worker with an error frame next in the pipe
AtError(c) ==
    /\ pc[c] = "wait_for_worker"
    /\ proc[c] # "none"
    /\ fromW[c] # <<>>
    /\ Head(fromW[c]).t = "error"

\* C31: a collector that reads an error frame in wait_for_worker stores it
\* in exc and returns, leaving todo and active as they are; a collector
\* that has returned stays returned, so it takes no lease afterwards.
C31_StartupErrorFatal ==
    [][\A c \in Coord :
          /\ (AtError(c) /\ Moves(c)) =>
                /\ exc' = Exc(c, "worker error", Head(fromW[c]).detail)
                /\ pc'[c] = "returned"
                /\ todo' = todo /\ active' = active /\ current' = current
          /\ pc[c] = "returned" =>
                /\ pc'[c] = "returned"
                /\ current'[c] = current[c]
                /\ toW'[c] = <<>>]_vars

\* a worker could not initialise, and the collector that read its error
\* frame has stored it and returned while paths were still to be leased
C31_Witness ==
    /\ exc.set
    /\ exc.what = "worker error"
    /\ exc.detail = InitMsg
    /\ pc[exc.by] = "returned"
    /\ todo # {}

(***************************************************************************)
(* C32                                                                     *)
(***************************************************************************)
\* C32: once exc is set it keeps its value: it is not cleared, and the
\* error of another collector does not replace it.
C32_FirstErrorKept == [][exc.set => exc' = exc]_vars

\* the part that holds: exc, once set, stays set
C32_NeverCleared == [][exc.set => exc'.set]_vars

(***************************************************************************)
(* C33                                                                     *)
(***************************************************************************)
\* what job->eval yields for the top-level value
RootYields ==
    LET n == forest[<<>>] IN
    IF RaisesEvalError(n) THEN "error"
    ELSE IF n.gd = "TypeError" THEN "children"
    ELSE "drvs"

\* this step is the last of initState
EndsInitState ==
    /\ mainpc = "initState"
    /\ mainpc' # "initState" \/ crashed' # {}

\* the singleton paths of the children of the top-level value
RootPaths == {<<forest[<<>>].children[i]>> : i \in 1..Len(forest[<<>>].children)}

NothingStarted == \A c \in Coord : pc[c] = "unstarted" /\ proc[c] = "none"

\* C33: initState ends in one of two ways.  Either the top level has
\* children: then the threads are started next with todo the singleton
\* paths of those children, active empty and exc unset.  Or the top level
\* fails to evaluate: then main fails, and neither a thread nor a worker
\* has been started.
C33_InitStateOutcomes ==
    [][EndsInitState =>
          \/ /\ RootYields = "children"
             /\ mainpc' = "threads"
             /\ todo' = RootPaths /\ active' = {} /\ ~exc'.set
          \/ /\ RootYields = "error"
             /\ mainpc' = "exited" /\ exitCode' = 1
             /\ NothingStarted']_vars

\* what holds of the two ways: threads start only with todo seeded from
\* what the bootstrap wrote, and a top level that fails starts none
C33_SeededOrFailed ==
    /\ mainpc = "threads" =>
          /\ todo = (IF RootYields = "children" THEN RootPaths ELSE {})
          /\ active = {} /\ ~exc.set
    /\ RootYields = "error" => mainpc \notin {"threads", "join"} /\ NothingStarted

(***************************************************************************)
(* C34                                                                     *)
(***************************************************************************)
\* C34: "exit" is the last frame a collector writes to a worker: in the
\* pipe to a worker no frame follows an "exit", neither a "do" nor a
\* second "exit".
C34_ExitIsLast ==
    \A c \in Coord : \A i \in 1..(Len(toW[c]) - 1) : toW[c][i].t # "exit"

(***************************************************************************)
(* C35                                                                     *)
(***************************************************************************)
\* getDerivations ends without an exception other than TypeError and
\* yields no derivation for the value n
YieldsNone(n) == n.gd # "EvalError" /\ n.drvs = <<>>

\* C35: getJob returns Drvs only for a value with derivations; an
\* attribute set without any becomes a JobAttrs, a list without any a
\* JobList, and a value of another kind fails with TypeError.
C35_ClassifyOrder ==
    (call.fn = "getJob" /\ Returned) =>
        LET n == call.arg IN
        /\ (ret.ok /\ ret.val = "Drvs") => n.drvs # <<>>
        /\ (YieldsNone(n) /\ n.kind = "attrs") => (ret.ok /\ ret.val = "JobAttrs")
        /\ (YieldsNone(n) /\ n.kind = "list") => (ret.ok /\ ret.val = "JobList")
        /\ (YieldsNone(n) /\ n.kind = "other") => (~ret.ok /\ ret.err = "TypeError")

\* what holds: a value with derivations is a Drvs, a value of another
\* kind fails with TypeError, and JobAttrs and JobList are given to
\* attribute sets and to lists only
C35_ClassifyHolds ==
    (call.fn = "getJob" /\ Returned) =>
        LET n == call.arg IN
        /\ (n.drvs # <<>> /\ ~UnknownSystem(n)) => (ret.ok /\ ret.val = "Drvs")
        /\ (YieldsNone(n) /\ n.kind = "other") => (~ret.ok /\ ret.err = "TypeError")
        /\ (ret.ok /\ ret.val = "JobAttrs") => n.kind = "attrs"
        /\ (ret.ok /\ ret.val = "JobList") => n.kind = "list"

(***************************************************************************)
(* C36                                                                     *)
(***************************************************************************)
\* C36: with --max-memory-size K the worker leaves its loop exactly when
\* the RSS it sampled is more than K kibibytes.
C36_RssThresholdKiB ==
    (call.fn = "rssCheck" /\ Returned) => (ret.val <=> call.arg > maxMemorySize)

\* what holds: the worker leaves its loop exactly when the sample is more
\* than 1024 * K, the unit of the sample being the kibibyte
C36_RssThresholdCode ==
    (call.fn = "rssCheck" /\ Returned) => (ret.val <=> call.arg > 1024 * maxMemorySize)

(***************************************************************************)
(* C37                                                                     *)
(***************************************************************************)
\* C37: while every worker follows its loop, the frame a collector is
\* about to read is one of those it expects where it is: "next",
\* "restart" or an error in wait_for_worker; a derivation, children,
\* "done" or an error in await_responses.
C37_PhasesAgree ==
    NoEnv =>
       \A c \in Coord :
          (/\ pc[c] \in {"wait_for_worker", "await_responses"}
           /\ proc[c] # "none"
           /\ fromW[c] # <<>>) => ExpectedHere(c, Head(fromW[c]))

(***************************************************************************)
(* C38                                                                     *)
(***************************************************************************)
\* p is or has been leased: a lease puts p into active and makes it the
\* current path of the collector
Leased(p) == p \in active \/ \E d \in Coord : current[d] = <<p>>

\* C38: a path is leased at most once in a run.  A path that is inserted
\* into todo has not been leased before, a "do" is written only for a
\* path that has not been leased before, and no two collectors have the
\* same current path.
C38_LeasedOnce ==
    [][/\ \A p \in todo' \ todo : ~Leased(p)
       /\ \A c \in Coord : \A i \in 1..Len(Appended(c)) :
             Appended(c)[i].t = "do" => ~Leased(Appended(c)[i].path)
       /\ \A c, d \in Coord :
             (c # d /\ current'[c] # <<>>) => current'[c] # current'[d]]_vars

\* a collector has leased a path that a children frame inserted while its
\* parent was leased, and another collector has had a lease as well
C38_Witness ==
    \E c, d \in Coord :
       /\ c # d
       /\ current[c] # <<>> /\ current[d] # <<>>
       /\ Len(current[c][1]) = 2
       /\ SubSeq(current[c][1], 1, 1) \in active
       /\ current[c][1] \in active

(***************************************************************************)
(* C39                                                                     *)
(***************************************************************************)
\* collector c is inside state.wait(wakeup) and has not been notified
Asleep(c) == pc[c] = "waiting" /\ c \notin woken

\* C39: the collectors that have not returned are never all asleep on the
\* condition variable: whenever one is, another one that has not returned
\* is not, and can still notify it.
C39_NeverAllAsleep ==
    (crashed = {} /\ \E c \in Coord : Asleep(c)) =>
        \E d \in Coord : pc[d] # "returned" /\ ~Asleep(d)

(***************************************************************************)
(* C40                                                                     *)
(***************************************************************************)
\* the paths of the requests in flight: the current path of a collector
\* that has sent "do" and awaits the answers, or that failed meanwhile
InFlight ==
    {p \in active \cup todo :
        \E c \in Coord :
           current[c] = <<p>> /\ pc[c] \in {"await_responses", "returned"}}

\* C40: while every worker follows its loop, active is the set of the
\* paths of the requests in flight, so that it never holds more paths
\* than there are collectors.
C40_ActiveIsInFlight ==
    NoEnv => (active = InFlight /\ Cardinality(active) <= NrWorkers)

=============================================================================
